---------------------------- MODULE Spec2Model ----------------------------
(***************************************************************************)
(* A model of pyb_utils: the Robot wrapper (robots.py) and the named-tuple *)
(* query adapters (named_tuples.py), together with the part of the physics *)
(* engine's state these wrappers read and write.                           *)
(*                                                                         *)
(* Conventions.  Python lists are sequences; Python index i is TLA+ index  *)
(* i + 1 (see At).  The engine's per-joint arrays are functions on         *)
(* 0 .. n-1.  Python's None is NoneIdx where an index is expected and      *)
(* NoName where a name is expected.  A Python str is <<"str", text>> and a *)
(* bytes object <<"bytes", text>>, so that the two are never equal, as in  *)
(* Python 3.  A value the engine's float parser rejects is NonNumeric.     *)
(***************************************************************************)
EXTENDS Integers, Sequences, FiniteSets, TLC

\* ------------------------------------------------------------- bounds
MaxJoints == 2
MaxContacts == 2

\* ------------------------------------------------------------- values
NoneIdx == 0 - 1
NoName == <<"None">>
NonNumeric == 0 - 2

\* The joint values: two distinct numbers tell a joint that was written from
\* one that was not.
Numbers == {0, 1}
JointTexts == {"joint1", "joint2"}
BodyUids == {1}

Min(a, b) == IF a <= b THEN a ELSE b

At(s, i) == s[i + 1]

\* list(range(n))
Range(n) == [k \in 1 .. n |-> k - 1]

\* the Python lists of length 0 .. n over S
Lists(S, n) == UNION {[1 .. k -> S] : k \in 0 .. n}

VARIABLES
    bodyUid,        \* engine: the unique id of the loaded articulated body
    jointNames,     \* engine: the raw (bytes) joint names, by joint index
    jpos,           \* engine: joint positions
    jvel,           \* engine: joint velocities
    target,         \* engine: the standing velocity-control targets
    contacts,       \* engine: the contact points currently reported
    phase,          \* "none" | "ok" | "failed": the Robot constructor's outcome
    uid,            \* Robot.uid
    num_joints,     \* Robot.num_joints
    joint_indices,  \* Robot._joint_indices
    tool_idx,       \* Robot.tool_idx
    lastOp,         \* the operation that ran last
    lastArg,        \* its list argument (q or u), or the name given to __init__
    lastLink,       \* the link index it handed to the engine
    err,            \* the exception it raised, "none" if it returned
    ret,            \* what it returned
    calls,          \* the engine commands it issued, in order
    points_raw      \* getContactPoints: the engine's raw answer

engineVars == <<bodyUid, jointNames, jpos, jvel, target>>
robotVars == <<phase, uid, num_joints, joint_indices, tool_idx>>
opVars == <<lastOp, lastArg, lastLink, err, ret, calls>>
contactVars == <<contacts, points_raw>>
vars == <<engineVars, robotVars, opVars, contactVars>>

\* ------------------------------------------------------------- engine
\* pyb.getNumJoints(uid)
getNumJoints(u) == Len(jointNames)

\* bytes.decode("utf-8"): the text as a str
decode(raw) == <<"str", raw[2]>>

\* The joint-info adapter named_tuples.getJointInfo(uid, i, decode="utf-8"),
\* as the specification describes it: the engine's joint info for joint i
\* as a record, the byte-string name decoded to text.
getJointInfo(u, i) == [jointIndex |-> i, jointName |-> decode(At(jointNames, i))]

\* pyb.getJointStates(uid, indices): one (position, velocity, ...) per index
getJointStates(u, indices) ==
    [k \in 1 .. Len(indices) |-> <<jpos[indices[k]], jvel[indices[k]]>>]

\* pyb.resetJointState(uid, idx, angle) parses angle as a float and fails on
\* anything else; the velocity defaults to 0.
EngineAccepts(angle) == angle \in Numbers

\* pyb.resetJointState(uid, idx, angle) on the arrays (pos, vel)
resetJointState(pos, vel, idx, angle) ==
    [jpos |-> [pos EXCEPT ![idx] = angle], jvel |-> [vel EXCEPT ![idx] = 0]]

\* the targets tgt with those of the pairs (indices[k], vals[k]), from k on, set
RECURSIVE SetTargets(_, _, _, _)
SetTargets(tgt, indices, vals, k) ==
    IF k > Len(indices) THEN tgt
    ELSE SetTargets([tgt EXCEPT ![indices[k]] = vals[k]], indices, vals, k + 1)

\* pyb.setJointMotorControlArray(uid, indices, VELOCITY_CONTROL,
\* targetVelocities=vals): the engine refuses lists of different lengths
\* ("number of target velocities should match the number of joint indices")
\* and values that are no floats, and changes nothing then.
setJointMotorControlArray(tgt, indices, vals) ==
    IF Len(vals) # Len(indices) \/ \E k \in 1 .. Len(vals) : ~EngineAccepts(vals[k])
    THEN [err |-> "EngineError", target |-> tgt]
    ELSE [err |-> "none",
          target |-> SetTargets(tgt, indices, vals, 1)]

\* pyb.getLinkState(uid, link, ...): 6 entries, 8 with computeLinkVelocity;
\* an entry is modelled by its name and the link it belongs to.
LinkStateFields ==
    <<"linkWorldPosition", "linkWorldOrientation", "localInertialFramePosition",
      "localInertialFrameOrientation", "worldLinkFramePosition",
      "worldLinkFrameOrientation", "worldLinkLinearVelocity",
      "worldLinkAngularVelocity">>

ValidLink(link) == link \in 0 .. Len(jointNames) - 1

getLinkState(u, link, withVelocity) ==
    [k \in 1 .. (IF withVelocity THEN 8 ELSE 6) |-> <<LinkStateFields[k], link>>]

\* pyb.calculateJacobian(uid, link, offset, q, z, z): a 3 x n linear and a
\* 3 x n angular block; the engine refuses a q whose length is not the
\* number of degrees of freedom, and non-float entries.
JacobianAccepts(link, q) ==
    /\ ValidLink(link)
    /\ Len(q) = Len(jointNames)
    /\ \A k \in 1 .. Len(q) : EngineAccepts(q[k])

calculateJacobian(u, link, offset, q) ==
    <<[r \in 1 .. 3 |-> [c \in 1 .. Len(q) |-> <<"Jv", link>>]],
      [r \in 1 .. 3 |-> [c \in 1 .. Len(q) |-> <<"Jw", link>>]]>>

\* pyb.getContactPoints(bodyA, bodyB, linkIndexA, linkIndexB): the contacts
\* that pass the filters, in the engine's order; -1 is any body, -2 any link
AnyBody == 0 - 1
AnyLink == 0 - 2

ContactMatches(c, bodyA, bodyB, linkIndexA, linkIndexB) ==
    /\ bodyA = AnyBody \/ c[2] = bodyA
    /\ bodyB = AnyBody \/ c[3] = bodyB
    /\ linkIndexA = AnyLink \/ c[4] = linkIndexA
    /\ linkIndexB = AnyLink \/ c[5] = linkIndexB

pybGetContactPoints(bodyA, bodyB, linkIndexA, linkIndexB) ==
    LET Test(c) == ContactMatches(c, bodyA, bodyB, linkIndexA, linkIndexB)
    IN SelectSeq(contacts, Test)

\* ------------------------------------------------------- named tuples
ContactPointFields ==
    <<"contactFlag", "bodyUniqueIdA", "bodyUniqueIdB", "linkIndexA", "linkIndexB",
      "positionOnA", "positionOnB", "contactNormalOnB", "contactDistance",
      "normalForce", "lateralFriction1", "lateralFrictionDir1",
      "lateralFriction2", "lateralFrictionDir2">>

\* ContactPoint(*point): the record whose k-th field is the tuple's k-th entry
ContactPoint(point) ==
    [f \in {ContactPointFields[k] : k \in 1 .. Len(ContactPointFields)} |->
        point[CHOOSE k \in 1 .. Len(ContactPointFields) : ContactPointFields[k] = f]]

\* getContactPoints losing the last point (an off-by-one).
getContactPointsButLast(bodyA, bodyB, linkIndexA, linkIndexB) ==
    LET raw == pybGetContactPoints(bodyA, bodyB, linkIndexA, linkIndexB)
    IN [points_raw |-> raw,
        err |-> "none",
        ret |-> [k \in 1 .. Len(raw) - 1 |-> ContactPoint(raw[k])]]

\* getContactPoints: the engine's raw answer and the list returned
getContactPoints(bodyA, bodyB, linkIndexA, linkIndexB) ==
    LET raw == pybGetContactPoints(bodyA, bodyB, linkIndexA, linkIndexB)
    IN [points_raw |-> raw,
        err |-> "none",
        ret |-> [k \in 1 .. Len(raw) |-> ContactPoint(raw[k])]]

\* -------------------------------------------------------------- Robot
\* The scan without its break: the last match wins.
RECURSIVE ToolSearchNoBreak(_, _, _, _)
ToolSearchNoBreak(u, tool_joint_name, i, n) ==
    IF i >= n THEN NoneIdx
    ELSE LET rest == ToolSearchNoBreak(u, tool_joint_name, i + 1, n)
         IN IF getJointInfo(u, i).jointName = tool_joint_name /\ rest = NoneIdx
            THEN getJointInfo(u, i).jointIndex
            ELSE rest

\* Robot.__init__, lines 29-33: the scan for the tool joint, from joint i
RECURSIVE ToolSearch(_, _, _, _)
ToolSearch(u, tool_joint_name, i, n) ==
    IF i >= n THEN NoneIdx
    ELSE IF getJointInfo(u, i).jointName = tool_joint_name
         THEN getJointInfo(u, i).jointIndex
         ELSE ToolSearch(u, tool_joint_name, i + 1, n)

NoRobot ==
    [uid |-> NoneIdx, num_joints |-> 0, joint_indices |-> <<>>, tool_idx |-> NoneIdx]

\* the object with uid u, n joints and tool t (lines 21-23)
RobotOf(u, n, t) ==
    [uid |-> u, num_joints |-> n, joint_indices |-> Range(n), tool_idx |-> t]

\* The constructor without lines 34-35: a name that is not found is let through.
ConstructNoRaise(u, tool_joint_name) ==
    LET n == getNumJoints(u)
    IN IF tool_joint_name = NoName
       THEN IF n = 0 THEN [err |-> "IndexError", robot |-> NoRobot]
            ELSE [err |-> "none", robot |-> RobotOf(u, n, n - 1)]
       ELSE [err |-> "none",
             robot |-> RobotOf(u, n, ToolSearch(u, tool_joint_name, 0, n))]

\* The constructor with _joint_indices[0] for _joint_indices[-1].
ConstructFirstTool(u, tool_joint_name) ==
    LET n == getNumJoints(u)
        t == ToolSearch(u, tool_joint_name, 0, n)
    IN IF tool_joint_name = NoName
       THEN IF n = 0 THEN [err |-> "IndexError", robot |-> NoRobot]
            ELSE [err |-> "none", robot |-> RobotOf(u, n, 0)]
       ELSE IF t = NoneIdx THEN [err |-> "ValueError", robot |-> NoRobot]
            ELSE [err |-> "none", robot |-> RobotOf(u, n, t)]

\* Robot.__init__: the exception raised ("none" if it returns) and the
\* object's fields.  No object exists when it raises.
Construct(u, tool_joint_name) ==
    LET n == getNumJoints(u)
        ji == Range(n)
    IN IF tool_joint_name = NoName
       THEN IF n = 0
            THEN [err |-> "IndexError", robot |-> NoRobot]
            ELSE [err |-> "none", robot |-> RobotOf(u, n, ji[Len(ji)])]
       ELSE LET t == ToolSearch(u, tool_joint_name, 0, n)
            IN IF t = NoneIdx
               THEN [err |-> "ValueError", robot |-> NoRobot]
               ELSE [err |-> "none", robot |-> RobotOf(u, n, t)]

\* get_joint_states with state[0] read for the velocity too.
get_joint_states_positions_twice ==
    LET states == getJointStates(uid, joint_indices)
    IN <<[k \in 1 .. Len(states) |-> states[k][1]],
         [k \in 1 .. Len(states) |-> states[k][1]]>>

\* Robot.get_joint_states
get_joint_states ==
    LET states == getJointStates(uid, joint_indices)
    IN <<[k \in 1 .. Len(states) |-> states[k][1]],
         [k \in 1 .. Len(states) |-> states[k][2]]>>

\* Robot.reset_joint_configuration: the loop over zip(_joint_indices, q),
\* from pair k on, with the engine arrays (pos, vel) and the calls cs made
\* so far.  The exception of a refused call leaves the loop at once.
RECURSIVE ResetLoop(_, _, _, _, _)
ResetLoop(pos, vel, k, q, cs) ==
    IF k > Min(Len(joint_indices), Len(q))
    THEN [err |-> "none", jpos |-> pos, jvel |-> vel, calls |-> cs]
    ELSE LET idx == joint_indices[k]
             angle == q[k]
             call == [fn |-> "resetJointState", idx |-> <<idx>>, val |-> <<angle>>]
         IN IF ~EngineAccepts(angle)
            THEN [err |-> "EngineError", jpos |-> pos, jvel |-> vel,
                  calls |-> Append(cs, call)]
            ELSE LET e == resetJointState(pos, vel, idx, angle)
                 IN ResetLoop(e.jpos, e.jvel, k + 1, q, Append(cs, call))

\* The reset with zip_longest for zip: joints q has no value for are set to 0.
reset_joint_configuration_padded(q) ==
    LET r == ResetLoop(jpos, jvel, 1, q, <<>>)
    IN IF r.err # "none" THEN r
       ELSE [r EXCEPT !.jpos = [j \in DOMAIN jpos |->
                                  IF j < Len(q) THEN r.jpos[j] ELSE 0]]

\* The reset made all-or-nothing: a refused call restores the joints.
reset_joint_configuration_atomic(q) ==
    LET r == ResetLoop(jpos, jvel, 1, q, <<>>)
    IN IF r.err = "none" THEN r ELSE [r EXCEPT !.jpos = jpos, !.jvel = jvel]

reset_joint_configuration(q) == ResetLoop(jpos, jvel, 1, q, <<>>)

\* command_velocity cutting both lists to the shorter, as zip would.
command_velocity_zip(u) ==
    LET m == Min(Len(joint_indices), Len(u))
        e == setJointMotorControlArray(target, SubSeq(joint_indices, 1, m),
                                       SubSeq(u, 1, m))
    IN [err |-> e.err, target |-> e.target,
        calls |-> <<[fn |-> "setJointMotorControlArray",
                     idx |-> SubSeq(joint_indices, 1, m), val |-> SubSeq(u, 1, m)]>>]

\* command_velocity handing u over as forces=, not targetVelocities=: the
\* targets stay what they were.
command_velocity_forces(u) ==
    [err |-> "none", target |-> target,
     calls |-> <<[fn |-> "setJointMotorControlArray", idx |-> joint_indices,
                  val |-> u]>>]

\* Robot.command_velocity: one engine command with the whole index list and
\* the whole of list(u)
command_velocity(u) ==
    LET e == setJointMotorControlArray(target, joint_indices, u)
    IN [err |-> e.err, target |-> e.target,
        calls |-> <<[fn |-> "setJointMotorControlArray", idx |-> joint_indices,
                     val |-> u]>>]

\* link_idx defaults to the tool
LinkOrTool(link_idx) == IF link_idx = NoneIdx THEN tool_idx ELSE link_idx

\* Robot.get_link_pose: state[4], state[5]
get_link_pose(link_idx) ==
    LET state == getLinkState(uid, LinkOrTool(link_idx), FALSE)
    IN <<At(state, 4), At(state, 5)>>

\* Robot.get_link_velocity: state[-2], state[-1]
get_link_velocity(link_idx) ==
    LET state == getLinkState(uid, LinkOrTool(link_idx), TRUE)
    IN <<state[Len(state) - 1], state[Len(state)]>>

\* Robot.jacobian: the configuration used, q or the current one
NoneList == <<NoneIdx>>
ZeroOffset == <<0, 0, 0>>

JacobianQ(q) == IF q = NoneList THEN get_joint_states[1] ELSE q

JacobianOffset(offset) == IF offset = NoneList THEN ZeroOffset ELSE offset

\* np.vstack((Jv, Jw))
jacobian(q, link_idx, offset) ==
    LET J == calculateJacobian(uid, LinkOrTool(link_idx), JacobianOffset(offset),
                               JacobianQ(q))
    IN J[1] \o J[2]

\* ------------------------------------------------------------- inputs
\* a list with one entry more than there can be joints
Surplus == {Append(l, 0) : l \in [1 .. MaxJoints -> Numbers]}

\* the q arguments of reset_joint_configuration: lists of numbers, and such
\* lists ending in something the engine takes for none
ArgLists ==
    Lists(Numbers, MaxJoints) \cup Surplus
       \cup {Append(l, NonNumeric) : l \in Lists(Numbers, MaxJoints - 1)}

\* the bodies that can be loaded: up to MaxJoints joints, names may repeat
RawNames == {<<"bytes", t>> : t \in JointTexts}
Bodies == Lists(RawNames, MaxJoints)

\* the arm of the tests: joints "joint1", "joint2", ... in this order
JointText(i) == IF i = 0 THEN "joint1" ELSE IF i = 1 THEN "joint2" ELSE "joint3"
Arm(n) == [k \in 1 .. n |-> <<"bytes", JointText((k - 1) % 3)>>]

\* the tool_joint_name arguments: none, a str, or (a caller's slip) bytes
ToolNames ==
    {NoName} \cup {<<"str", t>> : t \in JointTexts \cup {"tool"}}
             \cup {<<"bytes", "joint1">>}

\* the link_idx arguments: none, the first link, one the body has not
LinkArgs == {NoneIdx, 0, MaxJoints}

OffsetArgs == {NoneList, <<0, 0, 1>>}

\* the q arguments of jacobian: none, or the zero configuration of the
\* longest arm (too long for a shorter one)
JacobianArgs == {NoneList, [k \in 1 .. MaxJoints |-> 0]}

\* the u arguments of command_velocity
VelocityLists == Lists(Numbers, MaxJoints) \cup Surplus

\* the raw contact tuples the engine can report: the arm (body 1) touching
\* the plane (body 0) with its base (link -1) or its first link, either
\* body first
RawContacts ==
    {<<0, a, 1 - a, la, lb, "positionOnA", "positionOnB", "contactNormalOnB",
       0, 1, 0, "lateralFrictionDir1", 0, "lateralFrictionDir2">> :
       a \in {0, 1}, la \in {0 - 1, 0}, lb \in {0 - 1}}

BodyFilters == {AnyBody, 0, 1}
LinkFilters == {AnyLink, 0 - 1, 0}

\* ------------------------------------------------------------ actions
\* The engine with a body b loaded, at rest, its motors holding velocity 0.
Loaded(b) ==
    /\ bodyUid \in BodyUids
    /\ jointNames = b
    /\ jpos = [j \in 0 .. Len(b) - 1 |-> 0]
    /\ jvel = [j \in 0 .. Len(b) - 1 |-> 0]
    /\ target = [j \in 0 .. Len(b) - 1 |-> 0]
    /\ contacts = <<>>
    /\ points_raw = <<>>
    /\ ret = <<>>
    /\ calls = <<>>
    /\ lastLink = NoneIdx

\* Some body is loaded and no Robot is constructed yet.
InitConstruct ==
    /\ \E b \in Bodies : Loaded(b)
    /\ phase = "none"
    /\ uid = NoRobot.uid
    /\ num_joints = NoRobot.num_joints
    /\ joint_indices = NoRobot.joint_indices
    /\ tool_idx = NoRobot.tool_idx
    /\ lastOp = "load"
    /\ lastArg = <<>>
    /\ err = "none"

\* An arm is loaded and Robot(bodyUid, name) has just returned.
Init ==
    /\ \E n \in 1 .. MaxJoints : Loaded(Arm(n))
    /\ \E name \in {NoName, <<"str", "joint1">>} :
          /\ Construct(bodyUid, name).err = "none"
          /\ uid = Construct(bodyUid, name).robot.uid
          /\ num_joints = Construct(bodyUid, name).robot.num_joints
          /\ joint_indices = Construct(bodyUid, name).robot.joint_indices
          /\ tool_idx = Construct(bodyUid, name).robot.tool_idx
          /\ lastArg = name
    /\ phase = "ok"
    /\ lastOp = "__init__"
    /\ err = "none"

\* Robot(bodyUid, tool_joint_name)
RobotInit(tool_joint_name) ==
    /\ phase # "ok"
    /\ LET c == Construct(bodyUid, tool_joint_name)
       IN /\ phase' = IF c.err = "none" THEN "ok" ELSE "failed"
          /\ uid' = c.robot.uid
          /\ num_joints' = c.robot.num_joints
          /\ joint_indices' = c.robot.joint_indices
          /\ tool_idx' = c.robot.tool_idx
          /\ err' = c.err
    /\ lastOp' = "__init__"
    /\ lastArg' = tool_joint_name
    /\ lastLink' = NoneIdx
    /\ ret' = <<>>
    /\ calls' = <<>>
    /\ UNCHANGED <<engineVars, contactVars>>

\* robot.get_joint_states()
GetJointStates ==
    /\ phase = "ok"
    /\ lastOp' = "get_joint_states"
    /\ lastArg' = <<>>
    /\ lastLink' = NoneIdx
    /\ err' = "none"
    /\ ret' = get_joint_states
    /\ calls' = <<>>
    /\ UNCHANGED <<engineVars, robotVars, contactVars>>

\* robot.reset_joint_configuration(q)
ResetJointConfiguration(q) ==
    /\ phase = "ok"
    /\ LET r == reset_joint_configuration(q)
       IN /\ jpos' = r.jpos
          /\ jvel' = r.jvel
          /\ err' = r.err
          /\ calls' = r.calls
    /\ lastOp' = "reset_joint_configuration"
    /\ lastArg' = q
    /\ lastLink' = NoneIdx
    /\ ret' = <<>>
    /\ UNCHANGED <<bodyUid, jointNames, target, robotVars, contactVars>>

\* robot.command_velocity(u)
CommandVelocity(u) ==
    /\ phase = "ok"
    /\ LET r == command_velocity(u)
       IN /\ target' = r.target
          /\ err' = r.err
          /\ calls' = r.calls
    /\ lastOp' = "command_velocity"
    /\ lastArg' = u
    /\ lastLink' = NoneIdx
    /\ ret' = <<>>
    /\ UNCHANGED <<bodyUid, jointNames, jpos, jvel, robotVars, contactVars>>

\* get_link_pose keeping the link it was asked about as the tool.
GetLinkPoseStoresLink(link_idx) ==
    /\ phase = "ok"
    /\ lastOp' = "get_link_pose"
    /\ lastArg' = <<>>
    /\ lastLink' = LinkOrTool(link_idx)
    /\ tool_idx' = LinkOrTool(link_idx)
    /\ IF ValidLink(LinkOrTool(link_idx))
       THEN err' = "none" /\ ret' = get_link_pose(link_idx)
       ELSE err' = "EngineError" /\ ret' = <<>>
    /\ calls' = <<>>
    /\ UNCHANGED <<engineVars, phase, uid, num_joints, joint_indices, contactVars>>

\* robot.get_link_pose(link_idx)
GetLinkPose(link_idx) ==
    /\ phase = "ok"
    /\ lastOp' = "get_link_pose"
    /\ lastArg' = <<>>
    /\ lastLink' = LinkOrTool(link_idx)
    /\ IF ValidLink(LinkOrTool(link_idx))
       THEN err' = "none" /\ ret' = get_link_pose(link_idx)
       ELSE err' = "EngineError" /\ ret' = <<>>
    /\ calls' = <<>>
    /\ UNCHANGED <<engineVars, robotVars, contactVars>>

\* robot.get_link_velocity(link_idx)
GetLinkVelocity(link_idx) ==
    /\ phase = "ok"
    /\ lastOp' = "get_link_velocity"
    /\ lastArg' = <<>>
    /\ lastLink' = LinkOrTool(link_idx)
    /\ IF ValidLink(LinkOrTool(link_idx))
       THEN err' = "none" /\ ret' = get_link_velocity(link_idx)
       ELSE err' = "EngineError" /\ ret' = <<>>
    /\ calls' = <<>>
    /\ UNCHANGED <<engineVars, robotVars, contactVars>>

\* robot.jacobian(q, link_idx, offset)
Jacobian(q, link_idx, offset) ==
    /\ phase = "ok"
    /\ lastOp' = "jacobian"
    /\ lastArg' = <<>>
    /\ lastLink' = LinkOrTool(link_idx)
    /\ IF JacobianAccepts(LinkOrTool(link_idx), JacobianQ(q))
       THEN err' = "none" /\ ret' = jacobian(q, link_idx, offset)
       ELSE err' = "EngineError" /\ ret' = <<>>
    /\ calls' = <<>>
    /\ UNCHANGED <<engineVars, robotVars, contactVars>>

\* pyb.stepSimulation(): each motor brings its joint to the target velocity
\* and the joint moves by it (positions wrap within Numbers)
StepSimulation ==
    /\ phase = "ok"
    /\ jvel' = target
    /\ jpos' = [j \in DOMAIN jpos |-> (jpos[j] + target[j]) % 2]
    /\ lastOp' = "stepSimulation"
    /\ lastArg' = <<>>
    /\ lastLink' = NoneIdx
    /\ err' = "none"
    /\ ret' = <<>>
    /\ calls' = <<>>
    /\ UNCHANGED <<bodyUid, jointNames, target, robotVars, contactVars>>

Next ==
    \/ GetJointStates
    \/ \E q \in ArgLists : ResetJointConfiguration(q)
    \/ \E u \in VelocityLists : CommandVelocity(u)
    \/ \E link \in LinkArgs : GetLinkPose(link)
    \/ \E link \in LinkArgs : GetLinkVelocity(link)
    \/ \E q \in JacobianArgs, link \in LinkArgs, offset \in OffsetArgs :
          Jacobian(q, link, offset)
    \/ StepSimulation

Spec == Init /\ [][Next]_vars

\* Construction over every body, then the queries that leave the engine alone.
NextConstruct ==
    \/ \E name \in ToolNames : RobotInit(name)
    \/ GetJointStates
    \/ \E link \in LinkArgs : GetLinkPose(link)
    \/ \E link \in LinkArgs : GetLinkVelocity(link)
    \/ \E q \in JacobianArgs, link \in LinkArgs, offset \in OffsetArgs :
          Jacobian(q, link, offset)

SpecConstruct == InitConstruct /\ [][NextConstruct]_vars

\* pyb.stepSimulation() as the contact queries see it: collision detection
\* leaves some list of contacts, in an order of its own
StepContacts ==
    /\ \E cs \in Lists(RawContacts, MaxContacts) : contacts' = cs
    /\ lastOp' = "stepSimulation"
    /\ lastArg' = <<>>
    /\ err' = "none"
    /\ ret' = <<>>
    /\ points_raw' = <<>>
    /\ UNCHANGED <<engineVars, robotVars, lastLink, calls>>

\* getContactPoints(bodyA, bodyB, linkIndexA, linkIndexB)
GetContactPoints(bodyA, bodyB, linkIndexA, linkIndexB) ==
    /\ LET r == getContactPoints(bodyA, bodyB, linkIndexA, linkIndexB)
       IN /\ points_raw' = r.points_raw
          /\ err' = r.err
          /\ ret' = r.ret
    /\ lastOp' = "getContactPoints"
    /\ lastArg' = <<bodyA, bodyB, linkIndexA, linkIndexB>>
    /\ UNCHANGED <<engineVars, robotVars, lastLink, calls, contacts>>

\* The plane and the arm of the tests are loaded.
InitContacts ==
    /\ Loaded(Arm(1))
    /\ phase = "none"
    /\ uid = NoRobot.uid
    /\ num_joints = NoRobot.num_joints
    /\ joint_indices = NoRobot.joint_indices
    /\ tool_idx = NoRobot.tool_idx
    /\ lastOp = "load"
    /\ lastArg = <<>>
    /\ err = "none"

NextContacts ==
    \/ StepContacts
    \/ \E bodyA \in BodyFilters, bodyB \in BodyFilters,
          linkIndexA \in LinkFilters, linkIndexB \in {AnyLink} :
          GetContactPoints(bodyA, bodyB, linkIndexA, linkIndexB)

SpecContacts == InitContacts /\ [][NextContacts]_vars

\* ------------------------------------------------------------- claims
\* the decoded name of joint i of the loaded body
NameOf(i) == decode(At(jointNames, i))

JustConstructed == lastOp = "__init__"

\* C1: constructing a Robot with a tool_joint_name that equals the name of
\* none of the body's joints raises ValueError and yields no Robot; no Robot
\* that exists has its tool_idx unset.
C1_UnknownToolRaises ==
    /\ (JustConstructed /\ lastArg # NoName
          /\ \A i \in 0 .. Len(jointNames) - 1 : NameOf(i) # lastArg)
       => (err = "ValueError" /\ phase = "failed")
    /\ phase = "failed" =>
          <<uid, num_joints, joint_indices, tool_idx>>
             = <<NoRobot.uid, NoRobot.num_joints, NoRobot.joint_indices, NoRobot.tool_idx>>
    /\ phase = "ok" => tool_idx # NoneIdx

\* a name no joint of a two-joint body has was given, and the constructor raised
C1_Witness ==
    /\ JustConstructed
    /\ Len(jointNames) = 2
    /\ lastArg = <<"str", "tool">>
    /\ err = "ValueError"

\* C2: with a tool_joint_name, tool_idx is the index of the first joint, in
\* increasing index order, whose name equals it; of several joints of that
\* name the lowest index is taken; joints ["joint1", "joint2"] and the name
\* "joint2" give tool_idx 1.
C2_FirstExactMatch ==
    /\ (JustConstructed /\ phase = "ok" /\ lastArg # NoName) =>
          /\ tool_idx \in 0 .. Len(jointNames) - 1
          /\ NameOf(tool_idx) = lastArg
          /\ \A j \in 0 .. tool_idx - 1 : NameOf(j) # lastArg
    /\ (JustConstructed /\ lastArg = <<"str", "joint2">>
          /\ jointNames = <<(<<"bytes", "joint1">>), (<<"bytes", "joint2">>)>>)
       => (phase = "ok" /\ tool_idx = 1)

\* two joints share the name asked for and the first of them became the tool
C2_Witness ==
    /\ JustConstructed
    /\ phase = "ok"
    /\ Len(jointNames) = 2
    /\ NameOf(0) = lastArg
    /\ NameOf(1) = lastArg
    /\ tool_idx = 0

\* C3: with no tool_joint_name and a body of at least one joint, the
\* constructor returns a Robot whose tool_idx is num_joints - 1, the last
\* joint index.
C3_DefaultToolIsLast ==
    (JustConstructed /\ lastArg = NoName /\ Len(jointNames) >= 1) =>
        /\ phase = "ok"
        /\ err = "none"
        /\ num_joints = Len(jointNames)
        /\ tool_idx = num_joints - 1

\* a two-joint body, no name given: the tool is joint 1
C3_Witness ==
    /\ JustConstructed
    /\ lastArg = NoName
    /\ Len(jointNames) = 2
    /\ phase = "ok"
    /\ tool_idx = 1

Joints == 0 .. num_joints - 1

\* C4: the joint index list of a Robot is 0 .. num_joints-1 in order, and
\* get_joint_states() returns a position and a velocity vector of length
\* num_joints each, entry i being the engine's state of joint i.
C4_JointStatesByIndex ==
    /\ phase = "ok" =>
          /\ Len(joint_indices) = num_joints
          /\ \A k \in 1 .. num_joints : joint_indices[k] = k - 1
    /\ (lastOp = "get_joint_states") =>
          /\ err = "none"
          /\ Len(ret) = 2
          /\ Len(ret[1]) = num_joints
          /\ Len(ret[2]) = num_joints
          /\ \A i \in Joints : At(ret[1], i) = jpos[i] /\ At(ret[2], i) = jvel[i]

\* get_joint_states() of a two-joint Robot whose joints differ in position
\* and in velocity, and whose joint 0 has a velocity other than its position
C4_Witness ==
    /\ lastOp = "get_joint_states"
    /\ num_joints = 2
    /\ ret[1][1] # ret[1][2]
    /\ ret[2][1] # ret[2][2]
    /\ ret[1][1] # ret[2][1]

\* C5: uid, num_joints, the joint index list and tool_idx keep, through
\* every operation of a constructed Robot, the values the constructor gave.
C5_FieldsFixed ==
    [][phase = "ok" =>
          /\ phase' = "ok"
          /\ uid' = uid
          /\ num_joints' = num_joints
          /\ joint_indices' = joint_indices
          /\ tool_idx' = tool_idx]_vars

\* get_link_pose was asked about a link other than the tool, and the tool
\* is still the last joint
C5_Witness ==
    /\ lastOp = "get_link_pose"
    /\ err = "none"
    /\ lastLink = 0
    /\ tool_idx = 1
    /\ num_joints = 2

LengthMismatch == Len(lastArg) # num_joints

\* C6 as stated: command_velocity(u) with len(u) other than num_joints
\* raises nothing and the first min(num_joints, len(u)) joints get u's values
\* as velocity targets.
C6_TruncatesSilently ==
    (lastOp = "command_velocity" /\ LengthMismatch) =>
        /\ err = "none"
        /\ \A i \in 0 .. Min(num_joints, Len(lastArg)) - 1 : target[i] = At(lastArg, i)

\* C6 amended: command_velocity(u) checks and cuts nothing itself: it hands
\* the whole joint index list and the whole of u to the engine in one
\* command; with len(u) other than num_joints the engine refuses it, the
\* error reaches the caller and no velocity target changes.
C6_PassesWholeList ==
    /\ [](lastOp = "command_velocity" =>
            /\ Len(calls) = 1
            /\ calls[1].idx = joint_indices
            /\ calls[1].val = lastArg
            /\ LengthMismatch => err = "EngineError")
    /\ [][(lastOp' = "command_velocity" /\ Len(lastArg') # num_joints')
             => target' = target]_vars

\* a list one longer than the joints was commanded and refused, while a
\* target set earlier stands
C6_Witness ==
    /\ lastOp = "command_velocity"
    /\ num_joints = 2
    /\ Len(lastArg) = 3
    /\ err = "EngineError"
    /\ target[0] = 1
    /\ lastArg[1] = 0

\* the entries of q that zip pairs with a joint
Paired(q) == 1 .. Min(num_joints, Len(q))

\* C7: reset_joint_configuration(q) sets joint i to q[i] in increasing index
\* order and stops at the shorter of the joint list and q: joints
\* 0 .. min(num_joints, len(q))-1 are overwritten, joints from len(q) on keep
\* their state, surplus values are ignored, and a length mismatch raises
\* nothing.
C7_ResetStopsAtShorter ==
    /\ [](lastOp = "reset_joint_configuration" =>
            /\ (\A k \in Paired(lastArg) : EngineAccepts(lastArg[k])) => err = "none"
            /\ err = "none" =>
                  /\ Len(calls) = Min(num_joints, Len(lastArg))
                  /\ \A k \in 1 .. Len(calls) :
                        calls[k].idx = <<k - 1>> /\ calls[k].val = <<lastArg[k]>>)
    /\ [][(lastOp' = "reset_joint_configuration" /\ err' = "none") =>
             \A i \in Joints :
                IF i < Len(lastArg')
                THEN jpos'[i] = At(lastArg', i) /\ jvel'[i] = 0
                ELSE jpos'[i] = jpos[i] /\ jvel'[i] = jvel[i]]_vars

\* a q of one value reset joint 0 of a two-joint Robot to 0 and left joint 1
\* where it was, moving
C7_Witness ==
    /\ lastOp = "reset_joint_configuration"
    /\ err = "none"
    /\ num_joints = 2
    /\ lastArg = <<0>>
    /\ jpos[0] = 0
    /\ jpos[1] = 1
    /\ jvel[1] = 1

\* C8 as stated: every operation is all-or-nothing; a reset that the engine
\* refuses at some joint has overwritten no joint.
C8_AllOrNothing ==
    [][err' # "none" => engineVars' = engineVars]_vars

\* C8 amended: an operation that fails propagates the engine's error at
\* once, with no retry and no rollback.  A failed command_velocity or query
\* has changed nothing, a single engine call being all it makes; a
\* reset_joint_configuration(q) refused at joint k has overwritten joints
\* 0 .. k-1 with q[0 .. k-1] and left joints k and above as they were.
C8_ResetKeepsPrefix ==
    [][err' # "none" =>
          /\ <<bodyUid', jointNames', target'>> = <<bodyUid, jointNames, target>>
          /\ lastOp' # "reset_joint_configuration" => <<jpos', jvel'>> = <<jpos, jvel>>
          /\ lastOp' = "reset_joint_configuration" =>
                \E k \in Paired(lastArg') :
                   /\ ~EngineAccepts(lastArg'[k])
                   /\ Len(calls') = k
                   /\ \A i \in Joints :
                         IF i < k - 1
                         THEN jpos'[i] = At(lastArg', i) /\ jvel'[i] = 0
                         ELSE jpos'[i] = jpos[i] /\ jvel'[i] = jvel[i]]_vars

\* the reset to [1, non-numeric] was refused at joint 1 with joint 0 at 1
C8_Witness ==
    /\ lastOp = "reset_joint_configuration"
    /\ err = "EngineError"
    /\ num_joints = 2
    /\ lastArg = <<1, NonNumeric>>
    /\ jpos[0] = 1
    /\ jvel[0] = 0
    /\ target[0] = 1

Queries == {"get_joint_states", "get_link_pose", "get_link_velocity", "jacobian"}

\* C9: after command_velocity(u) with len(u) = num_joints the velocity
\* target of every joint i is u[i], set by a single engine command, and
\* simulation steps and queries leave the targets as they are.
C9_TargetsStand ==
    /\ []((lastOp = "command_velocity" /\ ~LengthMismatch) =>
            /\ err = "none"
            /\ Len(calls) = 1
            /\ \A i \in Joints : target[i] = At(lastArg, i))
    /\ [][lastOp' \in Queries \cup {"stepSimulation"} => target' = target]_vars

\* a step has been simulated under the targets [1, 0], which still stand
C9_Witness ==
    /\ lastOp = "stepSimulation"
    /\ num_joints = 2
    /\ target[0] = 1
    /\ target[1] = 0
    /\ jvel[0] = 1
    /\ jvel[1] = 0

\* C10: getContactPoints returns one ContactPoint per raw tuple the engine
\* reports for the filters, in the engine's order, each field of a record
\* being the tuple's entry at the field's place; where no contact passes
\* the filters it returns the empty list and raises nothing.
C10_OneRecordPerContact ==
    (lastOp = "getContactPoints") =>
        /\ err = "none"
        /\ points_raw = pybGetContactPoints(lastArg[1], lastArg[2], lastArg[3], lastArg[4])
        /\ Len(ret) = Len(points_raw)
        /\ \A k \in 1 .. Len(points_raw) :
              \A j \in 1 .. Len(ContactPointFields) :
                 ret[k][ContactPointFields[j]] = points_raw[k][j]
        /\ points_raw = <<>> => ret = <<>>

\* asked for the contacts of body 1, the engine reports two different ones,
\* and both came back, in its order
C10_Witness ==
    /\ lastOp = "getContactPoints"
    /\ lastArg[1] = 1
    /\ Len(ret) = 2
    /\ ret[1].bodyUniqueIdA = 1
    /\ ret[1].linkIndexA = 0
    /\ ret[2].linkIndexA = 0 - 1
=============================================================================
